---------------------------- MODULE Spec2Model ----------------------------
(***************************************************************************)
(* The text workbench of src/components/TestWorkbench.tsx: computeMetrics, *)
(* computeComparison, formatMinutes and the TestWorkbench component that   *)
(* keeps their results memoised over two text buffers.                     *)
(*                                                                         *)
(* A string is a sequence of one-character strings.  A JavaScript number   *)
(* that is a quotient is kept as the pair [num, den] of the integers the   *)
(* code divides; where the rounding of the double decides a result         *)
(* (toFixed on a tie) the direction of that rounding is computed.          *)
(***************************************************************************)
EXTENDS Integers, Sequences, FiniteSets, TLC

VARIABLES
  primary,           \* useState(defaultPrimary)
  secondary,         \* useState(defaultSecondary)
  primaryMetrics,    \* useMemo(() => computeMetrics(primary), [primary])
  secondaryMetrics,  \* useMemo(() => computeMetrics(secondary), [secondary])
  comparison,        \* useMemo(() => computeComparison(primary, secondary), ...)
  deps,              \* the dependency arrays the three memo cells were filled under
  call,              \* a direct call of one of the three functions: its arguments
  ret                \* that call's return value, Pending until it returns

vars ==
  <<primary, secondary, primaryMetrics, secondaryMetrics, comparison, deps, call, ret>>

workbench == <<primary, secondary, primaryMetrics, secondaryMetrics, comparison, deps>>

-----------------------------------------------------------------------------
(* Bounds of the model. *)

\* longest enumerated argument of computeMetrics
MaxLen == 4

\* longest enumerated argument, each side, of computeComparison
MaxPairLen == 3

\* longest text typed into a buffer of the workbench
MaxEditLen == 2

\* largest word count whose reading time is formatted
MaxWords == 450

-----------------------------------------------------------------------------
(* Characters and the character classes of the regular expressions. *)

UpperCase ==
  <<"A", "B", "C", "D", "E", "F", "G", "H", "I", "J", "K", "L", "M",
    "N", "O", "P", "Q", "R", "S", "T", "U", "V", "W", "X", "Y", "Z">>

LowerCase ==
  <<"a", "b", "c", "d", "e", "f", "g", "h", "i", "j", "k", "l", "m",
    "n", "o", "p", "q", "r", "s", "t", "u", "v", "w", "x", "y", "z">>

Digits == <<"0", "1", "2", "3", "4", "5", "6", "7", "8", "9">>

Range(s) == {s[i] : i \in DOMAIN s}

\* \s of /\s+/ and /\n\s*\n/, and the characters String.prototype.trim strips
Whitespace == {" ", "\n", "\t", "\r"}

\* the class of /[.!?]+/
SentenceEnd == {".", "!", "?"}

\* the class a-z0-9'- of /[^a-z0-9'-]/gi; the i flag admits both cases
WordChars == Range(LowerCase) \cup Range(UpperCase) \cup Range(Digits) \cup {"'", "-"}

\* String.prototype.toLowerCase
toLowerCase(s) ==
  [i \in 1..Len(s) |->
     IF \E k \in 1..26 : UpperCase[k] = s[i]
     THEN LowerCase[CHOOSE k \in 1..26 : UpperCase[k] = s[i]]
     ELSE s[i]]

\* String.prototype.trim
trim(s) ==
  LET inner == {i \in 1..Len(s) : s[i] \notin Whitespace}
  IN  IF inner = {} THEN <<>>
      ELSE SubSeq(s, CHOOSE i \in inner : \A j \in inner : i <= j,
                     CHOOSE i \in inner : \A j \in inner : j <= i)

\* word.replace(/[^a-z0-9'-]/gi, "")
stripNonWord(s) == SelectSeq(s, LAMBDA c : c \in WordChars)

\* Array.prototype.filter(Boolean) on an array of strings: drops the empty ones
filterBoolean(parts) == SelectSeq(parts, LAMBDA p : p # <<>>)

RECURSIVE splitFrom(_, _, _, _)
\* String.prototype.split on a pattern [class]+, from the piece that starts
\* at i: a separator is a maximal run of characters of seps; the pieces
\* before, between and after the runs are kept, the empty ones too
splitFrom(s, seps, i, acc) ==
  LET hits == {j \in i..Len(s) : s[j] \in seps}
      q    == CHOOSE j \in hits : \A k \in hits : j <= k
      rest == {j \in q..Len(s) : s[j] \notin seps}
      next == IF rest = {} THEN Len(s) + 1
              ELSE CHOOSE j \in rest : \A k \in rest : j <= k
  IN  IF hits = {} THEN Append(acc, SubSeq(s, i, Len(s)))
      ELSE splitFrom(s, seps, next, Append(acc, SubSeq(s, i, q - 1)))

\* s.split(/[class]+/)
split(s, seps) == splitFrom(s, seps, 1, <<>>)

\* the end of the match of /\n\s*\n/ that starts at q, 0 when there is none:
\* \s* is greedy, so the match runs to the last newline of the whitespace run
blankLineEnd(s, q) ==
  LET ends == {e \in (q + 1)..Len(s) :
                 /\ s[e] = "\n"
                 /\ \A j \in (q + 1)..(e - 1) : s[j] \in Whitespace}
  IN  IF s[q] # "\n" \/ ends = {} THEN 0
      ELSE CHOOSE e \in ends : \A f \in ends : f <= e

RECURSIVE splitBlankFrom(_, _, _)
\* s.split(/\n\s*\n/), from the piece that starts at i
splitBlankFrom(s, i, acc) ==
  LET hits == {j \in i..Len(s) : blankLineEnd(s, j) # 0}
      q    == CHOOSE j \in hits : \A k \in hits : j <= k
  IN  IF hits = {} THEN Append(acc, SubSeq(s, i, Len(s)))
      ELSE splitBlankFrom(s, blankLineEnd(s, q) + 1, Append(acc, SubSeq(s, i, q - 1)))

splitBlankLines(s) == splitBlankFrom(s, 1, <<>>)

-----------------------------------------------------------------------------
(* The tally object `counts` of computeMetrics: a JavaScript object used as   *)
(* a map.  It is kept as the sequence of its own properties in the order they *)
(* were created, each [key, value]; a value is tagged with its type.          *)

Num(n) == [type |-> "number", value |-> n]

Str(s) == [type |-> "string", value |-> s]

\* the one property name made of word characters in lower case that the
\* object literal {} inherits from Object.prototype
ConstructorKey == <<"c", "o", "n", "s", "t", "r", "u", "c", "t", "o", "r">>

\* what {}.constructor is: the function Object
ObjectFunction == [type |-> "function", value |-> "function Object() { [native code] }"]

hasOwn(acc, k) == \E i \in 1..Len(acc) : acc[i].key = k

ownIndex(acc, k) == CHOOSE i \in 1..Len(acc) : acc[i].key = k

\* acc[key] ?? 0 : the own property, else the inherited one, else 0
readOrZero(acc, k) ==
  IF hasOwn(acc, k) THEN acc[ownIndex(acc, k)].value
  ELSE IF k = ConstructorKey THEN ObjectFunction
  ELSE Num(0)

\* v + 1 : addition on a number; on anything else the operands are converted
\* to strings and concatenated
plusOne(v) ==
  IF v.type = "number" THEN Num(v.value + 1) ELSE Str(v.value \o "1")

\* acc[key] = v : an own property keeps its place, a new one is created last
assign(acc, k, v) ==
  IF hasOwn(acc, k)
  THEN [acc EXCEPT ![ownIndex(acc, k)] = [key |-> k, value |-> v]]
  ELSE Append(acc, [key |-> k, value |-> v])

\* const key = word.toLowerCase().replace(/[^a-z0-9'-]/gi, "")
key(word) == stripNonWord(toLowerCase(word))

\* the reducer of words.reduce(..., {})
tally(acc, word) ==
  IF key(word) = <<>> THEN acc
  ELSE assign(acc, key(word), plusOne(readOrZero(acc, key(word))))

RECURSIVE reduceFrom(_, _, _)
reduceFrom(ws, i, acc) ==
  IF i > Len(ws) THEN acc ELSE reduceFrom(ws, i + 1, tally(acc, ws[i]))

\* const counts = words.reduce(..., {})
counts(ws) == reduceFrom(ws, 1, <<>>)

DigitValue(c) == (CHOOSE i \in 1..10 : Digits[i] = c) - 1

\* 2^32 - 2, the largest array index, in decimal
MaxArrayIndex == <<"4", "2", "9", "4", "9", "6", "7", "2", "9", "4">>

\* a < b for two digit strings of the same length
digitsLess(a, b) ==
  \E i \in 1..Len(a) :
    /\ DigitValue(a[i]) < DigitValue(b[i])
    /\ \A j \in 1..(i - 1) : a[j] = b[j]

\* a property key that is a canonical array index: "0", or digits without a
\* leading zero, at most 2^32 - 2
isArrayIndex(k) ==
  /\ Len(k) >= 1
  /\ \A i \in 1..Len(k) : k[i] \in Range(Digits)
  /\ Len(k) = 1 \/ k[1] # "0"
  /\ \/ Len(k) < 10
     \/ Len(k) = 10 /\ (k = MaxArrayIndex \/ digitsLess(k, MaxArrayIndex))

\* numeric order of two array indices
indexLess(a, b) == Len(a) < Len(b) \/ (Len(a) = Len(b) /\ digitsLess(a, b))

\* Object.entries(counts): the own properties, those whose key is an array
\* index first, in ascending numeric order, then the others in the order they
\* were created
entries(acc) ==
  LET idx == {i \in 1..Len(acc) : isArrayIndex(acc[i].key)}
      rank(i) == 1 + Cardinality({j \in idx : indexLess(acc[j].key, acc[i].key)})
      first == [p \in 1..Cardinality(idx) |-> acc[CHOOSE i \in idx : rank(i) = p]]
  IN  first \o SelectSeq(acc, LAMBDA e : ~isArrayIndex(e.key))

\* count > 1 : a string that is no numeral converts to NaN, and NaN > 1 is false
greaterThanOne(v) == v.type = "number" /\ v.value > 1

\* .filter(([, count]) => count > 1)
filterRepeated(es) == SelectSeq(es, LAMBDA e : greaterThanOne(e.value))

\* .sort((a, b) => b[1] - a[1]) : Array.prototype.sort is stable, so an entry
\* comes after the entries of greater count and after the earlier entries of
\* the same count
sortByCount(es) ==
  LET pos(i) == 1 + Cardinality({j \in 1..Len(es) : es[j].value.value > es[i].value.value})
                  + Cardinality({j \in 1..(i - 1) : es[j].value.value = es[i].value.value})
  IN  [p \in 1..Len(es) |-> es[CHOOSE i \in 1..Len(es) : pos(i) = p]]

repeatedWordLimit == 5

\* (variant: no limit)
sliceAll(es) == es

\* .slice(0, repeatedWordLimit)
sliceLimit(es) ==
  SubSeq(es, 1, IF Len(es) < repeatedWordLimit THEN Len(es) ELSE repeatedWordLimit)

\* const repeatedWords = Object.entries(counts).filter().sort().slice().map()
repeatedWords(cs) ==
  LET top == sliceLimit(sortByCount(filterRepeated(entries(cs))))
  IN  [i \in 1..Len(top) |-> top[i].key]

-----------------------------------------------------------------------------
(* computeMetrics *)

\* (variant: the empty text is split as well)
wordsUnguarded(text) == split(text, Whitespace)

\* const words = text === "" ? [] : text.split(/\s+/)
words(text) == IF text = <<>> THEN <<>> ELSE split(text, Whitespace)

\* (variant: the empty pieces are kept)
sentencesUnfiltered(text) == IF text = <<>> THEN <<>> ELSE split(text, SentenceEnd)

\* const sentences = text === "" ? [] : text.split(/[.!?]+/).filter(Boolean)
sentences(text) ==
  IF text = <<>> THEN <<>> ELSE filterBoolean(split(text, SentenceEnd))

\* const paragraphs = text === "" ? [] : text.split(/\n\s*\n/).filter(Boolean)
paragraphs(text) ==
  IF text = <<>> THEN <<>> ELSE filterBoolean(splitBlankLines(text))

RECURSIVE sumLengths(_, _)
\* words.reduce((sum, word) => sum + word.length, 0)
sumLengths(ws, i) == IF i > Len(ws) THEN 0 ELSE Len(ws[i]) + sumLengths(ws, i + 1)

\* the reading speed, words per minute
WordsPerMinute == 200

\* words.length === 0 ? 0 : sum / words.length
averageWordLength(ws) ==
  IF Len(ws) = 0 THEN [num |-> 0, den |-> 1]
  ELSE [num |-> sumLengths(ws, 1), den |-> Len(ws)]

\* words.length / 200
readingTimeMinutes(ws) == [num |-> Len(ws), den |-> WordsPerMinute]

computeMetrics(raw) ==
  LET text == trim(raw)
      ws   == words(text)
  IN  [characters         |-> Len(text),
       words              |-> Len(ws),
       sentences          |-> Len(sentences(text)),
       paragraphs         |-> Len(paragraphs(text)),
       averageWordLength  |-> averageWordLength(ws),
       readingTimeMinutes |-> readingTimeMinutes(ws),
       repeatedWords      |-> repeatedWords(counts(ws))]

-----------------------------------------------------------------------------
(* computeComparison *)

\* primaryMetrics.words + secondaryMetrics.words || 1
totalWords(pw, sw) == IF pw + sw = 0 THEN 1 ELSE pw + sw

\* (variant: no toLowerCase)
tokensCaseSensitive(text) ==
  LET parts == split(text, Whitespace)
  IN  filterBoolean([i \in 1..Len(parts) |-> stripNonWord(parts[i])])

\* text.toLowerCase().split(/\s+/).map((word) => word.replace(...)).filter(Boolean)
tokens(text) ==
  LET parts == split(toLowerCase(text), Whitespace)
  IN  filterBoolean([i \in 1..Len(parts) |-> stripNonWord(parts[i])])

RECURSIVE forEachShared(_, _, _, _)
\* secondaryWords.forEach((word) => { if (primaryMap.has(word)) sharedWords.add(word) })
forEachShared(primaryMap, secondaryWords, i, shared) ==
  IF i > Len(secondaryWords) THEN shared
  ELSE forEachShared(primaryMap, secondaryWords, i + 1,
                     IF secondaryWords[i] \in primaryMap
                     THEN shared \cup {secondaryWords[i]}
                     ELSE shared)

\* (variant: sharedWords an array, not a Set)
sharedSizeAsList(primaryWords, secondaryWords) ==
  Len(SelectSeq(secondaryWords, LAMBDA w : w \in Range(primaryWords)))

\* sharedWords.size once the forEach is over; primaryMap = new Set(primaryWords)
sharedSize(primaryWords, secondaryWords) ==
  Cardinality(forEachShared(Range(primaryWords), secondaryWords, 1, {}))

\* totalWords === 0 ? 0 : (sharedWords.size * 2) / totalWords
similarity(size, total) ==
  IF total = 0 THEN [num |-> 0, den |-> 1] ELSE [num |-> size * 2, den |-> total]

computeComparison(p, s) ==
  LET pm == computeMetrics(p)
      sm == computeMetrics(s)
  IN  [wordDelta      |-> sm.words - pm.words,
       characterDelta |-> sm.characters - pm.characters,
       similarity     |-> similarity(sharedSize(tokens(p), tokens(s)),
                                     totalWords(pm.words, sm.words))]

-----------------------------------------------------------------------------
(* formatMinutes.  Its argument is a double; it is kept as the quotient       *)
(* num/den that produced it.                                                  *)

RECURSIVE bitLength(_)
\* the number of binary digits of a positive integer
bitLength(q) == IF q = 0 THEN 0 ELSE 1 + bitLength(q \div 2)

RECURSIVE roundAfter(_, _, _, _)
\* binary long division of r/d, `left` digits still to produce: the sign of
\* (the 53-digit quotient rounded to nearest, ties to even) - (the quotient)
roundAfter(r, d, left, lastBit) ==
  IF left = 0
  THEN IF r = 0 THEN 0
       ELSE IF 2 * r < d THEN -1
       ELSE IF 2 * r > d THEN 1
       ELSE IF lastBit = 1 THEN 1 ELSE -1
  ELSE LET bit == IF 2 * r >= d THEN 1 ELSE 0
       IN  roundAfter(2 * r - bit * d, d, left - 1, bit)

RECURSIVE skipZeros(_, _)
\* the digits of a quotient below 1 up to and with its first 1
skipZeros(r, d) == IF 2 * r >= d THEN 2 * r - d ELSE skipZeros(2 * r, d)

\* the sign of (the double n / d) - (the quotient n/d): the division of two
\* doubles is rounded to 53 significant binary digits
doubleError(n, d) ==
  IF n % d = 0 THEN 0
  ELSE IF n \div d > 0
       THEN roundAfter(n % d, d, 53 - bitLength(n \div d), (n \div d) % 2)
       ELSE roundAfter(skipZeros(n, d), d, 52, 1)

\* (variant: Math.floor for Math.round)
roundSecondsDown(m) == (60 * m.num) \div m.den

\* Math.round(minutes * 60): the integer nearest to the product, a half going
\* up.  For the quotients below 1 that the component formats (w/200) the
\* product of the doubles rounds as the product of the quotients does.
roundSeconds(m) == (120 * m.num + m.den) \div (2 * m.den)

\* Math.max(1, Math.round(minutes * 60))
seconds(m) == IF roundSeconds(m) < 1 THEN 1 ELSE roundSeconds(m)

\* minutes.toFixed(1), as the number of tenths: the integer n with n / 10
\* nearest to the double, the larger n when two are as near.  Two are as near
\* only when the double is exactly the half-way quotient.
tenths(m) ==
  LET n    == (20 * m.num + m.den) \div (2 * m.den)
      half == (20 * m.num + m.den) % (2 * m.den) = 0
  IN  IF half /\ doubleError(m.num, m.den) < 0 THEN n - 1 ELSE n

\* `${minutes.toFixed(1)}`
toFixed1(m) == ToString(tenths(m) \div 10) \o "." \o ToString(tenths(m) % 10)

formatMinutes(m) ==
  IF m.num = 0 THEN "under 1 min"
  ELSE IF m.num < m.den THEN ToString(seconds(m)) \o " sec"
  ELSE toFixed1(m) \o " min"

-----------------------------------------------------------------------------
(* The texts the functions are applied to. *)

defaultPrimary ==
  <<"T", "e", "s", "t", "i", "n", "g", " ", "r", "e", "q", "u", "i", "r", "e", "s", " ",
    "s", "e", "t", "t", "i", "n", "g", " ", "e", "x", "p", "e", "c", "t", "a", "t", "i",
    "o", "n", "s", " ", "a", "n", "d", " ", "m", "e", "a", "s", "u", "r", "i", "n", "g",
    " ", "r", "e", "a", "l", " ", "o", "u", "t", "c", "o", "m", "e", "s", ".", " ", "P",
    "a", "s", "t", "e", " ", "y", "o", "u", "r", " ", "t", "e", "x", "t", " ", "h", "e",
    "r", "e", " ", "t", "o", " ", "e", "x", "p", "l", "o", "r", "e", " ", "q", "u", "i",
    "c", "k", " ", "i", "n", "s", "i", "g", "h", "t", "s", ".">>

defaultSecondary ==
  <<"T", "e", "s", "t", "i", "n", "g", " ", "i", "s", " ", "a", "b", "o", "u", "t", " ",
    "d", "e", "f", "i", "n", "i", "n", "g", " ", "e", "x", "p", "e", "c", "t", "a", "t",
    "i", "o", "n", "s", " ", "a", "n", "d", " ", "v", "a", "l", "i", "d", "a", "t", "i",
    "n", "g", " ", "r", "e", "a", "l", "i", "t", "y", ".", " ", "D", "r", "o", "p", " ",
    "a", "n", " ", "a", "l", "t", "e", "r", "n", "a", "t", "i", "v", "e", " ", "c", "u",
    "t", " ", "h", "e", "r", "e", " ", "t", "o", " ", "c", "o", "m", "p", "a", "r", "e",
    ".">>

\* "Hello world. Hello again!"
HelloText ==
  <<"H", "e", "l", "l", "o", " ", "w", "o", "r", "l", "d", ".", " ", "H", "e", "l", "l",
    "o", " ", "a", "g", "a", "i", "n", "!">>

\* "One\n\nTwo"
OneTwoText == <<"O", "n", "e", "\n", "\n", "T", "w", "o">>

\* "cat dog"
CatDogText == <<"c", "a", "t", " ", "d", "o", "g">>

\* "dog bird"
DogBirdText == <<"d", "o", "g", " ", "b", "i", "r", "d">>

\* "cat cat"
CatCatText == <<"c", "a", "t", " ", "c", "a", "t">>

\* "z z y y y x x w w v v u u u u": six repeated words, of counts 2 3 2 2 2 4
RankedText ==
  <<"z", " ", "z", " ", "y", " ", "y", " ", "y", " ", "x", " ", "x", " ", "w", " ",
    "w", " ", "v", " ", "v", " ", "u", " ", "u", " ", "u", " ", "u">>

\* "b b 1 1"
IndexKeyText == <<"b", " ", "b", " ", "1", " ", "1">>

\* "constructor constructor"
ConstructorText ==
  <<"c", "o", "n", "s", "t", "r", "u", "c", "t", "o", "r", " ", "c", "o", "n", "s",
    "t", "r", "u", "c", "t", "o", "r">>

\* "Hi! hi? HI."
CaseText == <<"H", "i", "!", " ", "h", "i", "?", " ", "H", "I", ".">>

\* "it's It's well-known x_x xx"
QuoteText ==
  <<"i", "t", "'", "s", " ", "I", "t", "'", "s", " ", "w", "e", "l", "l", "-", "k",
    "n", "o", "w", "n", " ", "x", "_", "x", " ", "x", "x">>

\* "a\n \n\nb\nc"
BlankLinesText == <<"a", "\n", " ", "\n", "\n", "b", "\n", "c">>

\* " \n\t "
WhitespaceText == <<" ", "\n", "\t", " ">>

\* "  cat  cat\n"
PaddedText == <<" ", " ", "c", "a", "t", " ", " ", "c", "a", "t", "\n">>

SampleTexts ==
  {defaultPrimary, defaultSecondary, HelloText, OneTwoText, CatDogText, DogBirdText,
   CatCatText, RankedText, IndexKeyText, ConstructorText, CaseText, QuoteText,
   BlankLinesText, WhitespaceText, PaddedText}

\* every text over an alphabet, up to a length
TextsUpTo(alphabet, n) == UNION {[1..k -> alphabet] : k \in 0..n}

MetricsAlphabet == {"a", "A", "1", " ", "\n", "."}

MetricsInputs == TextsUpTo(MetricsAlphabet, MaxLen) \cup SampleTexts

PairAlphabet == {"a", "A", " ", "."}

PairTexts == TextsUpTo(PairAlphabet, MaxPairLen)

PairInputs ==
  (PairTexts \X PairTexts) \cup (SampleTexts \X SampleTexts)
    \cup ({<<>>, WhitespaceText} \X SampleTexts) \cup (SampleTexts \X {<<>>, WhitespaceText})

\* a text of w one-letter words
WordsOf(w) == [i \in 1..w |-> <<"a">>]

\* the reading times of the texts of up to MaxWords words, and 0.5 and 2.25
MinutesInputs ==
  {readingTimeMinutes(WordsOf(w)) : w \in 0..MaxWords}
    \cup {[num |-> 1, den |-> 2], [num |-> 9, den |-> 4]}

EditChars == {"a", " ", "."}

PastedTexts == {CatDogText, DogBirdText, CatCatText}

\* what event.target.value can be after one edit of a buffer holding cur: a
\* typed character more, a pasted sample, or nothing
EditValues(cur) ==
  {Append(cur, c) : c \in {d \in EditChars : Len(cur) < MaxEditLen}}
    \cup PastedTexts \cup {<<>>}

-----------------------------------------------------------------------------
(* The component TestWorkbench: two state cells and three memo cells. *)

\* useMemo(fn, deps): the cell keeps its value while deps are the same
useMemo(fresh, newDeps, oldValue, oldDeps) ==
  IF newDeps = oldDeps THEN oldValue ELSE fresh

\* the dependency arrays of the three useMemo calls
primaryMetricsDeps(p, s) == <<p>>

secondaryMetricsDeps(p, s) == <<s>>

\* (variant: secondary left out of the array)
comparisonDepsPrimaryOnly(p, s) == <<p>>

comparisonDeps(p, s) == <<p, s>>

\* one run of the component's body with the state cells holding p and s
Render(p, s) ==
  /\ primaryMetrics' =
       useMemo(computeMetrics(p), primaryMetricsDeps(p, s),
               primaryMetrics, deps.primaryMetrics)
  /\ secondaryMetrics' =
       useMemo(computeMetrics(s), secondaryMetricsDeps(p, s),
               secondaryMetrics, deps.secondaryMetrics)
  /\ comparison' =
       useMemo(computeComparison(p, s), comparisonDeps(p, s),
               comparison, deps.comparison)
  /\ deps' = [primaryMetrics   |-> primaryMetricsDeps(p, s),
              secondaryMetrics |-> secondaryMetricsDeps(p, s),
              comparison       |-> comparisonDeps(p, s)]

\* the mount: the first render computes the three cells
DefaultPrimaryMetrics == computeMetrics(defaultPrimary)

DefaultSecondaryMetrics == computeMetrics(defaultSecondary)

DefaultComparison == computeComparison(defaultPrimary, defaultSecondary)

Mounted ==
  /\ primary = defaultPrimary
  /\ secondary = defaultSecondary
  /\ primaryMetrics = DefaultPrimaryMetrics
  /\ secondaryMetrics = DefaultSecondaryMetrics
  /\ comparison = DefaultComparison
  /\ deps = [primaryMetrics   |-> primaryMetricsDeps(defaultPrimary, defaultSecondary),
             secondaryMetrics |-> secondaryMetricsDeps(defaultPrimary, defaultSecondary),
             comparison       |-> comparisonDeps(defaultPrimary, defaultSecondary)]

\* the component before it is mounted: no cell holds anything
Unmounted ==
  /\ primary = "unmounted"
  /\ secondary = "unmounted"
  /\ primaryMetrics = "unmounted"
  /\ secondaryMetrics = "unmounted"
  /\ comparison = "unmounted"
  /\ deps = "unmounted"

NoCall == [fn |-> "none"]

Pending == [done |-> FALSE]

Returned(v) == [done |-> TRUE, value |-> v]

\* onChange={(event) => setPrimary(event.target.value)}, and the render it causes
setPrimary(v) ==
  /\ v # primary
  /\ primary' = v
  /\ secondary' = secondary
  /\ Render(v, secondary)
  /\ UNCHANGED <<call, ret>>

\* onChange={(event) => setSecondary(event.target.value)}, and the render it causes
setSecondary(v) ==
  /\ v # secondary
  /\ secondary' = v
  /\ primary' = primary
  /\ Render(primary, v)
  /\ UNCHANGED <<call, ret>>

Init == Mounted /\ call = NoCall /\ ret = Pending

Next ==
  \/ \E v \in EditValues(primary) : setPrimary(v)
  \/ \E v \in EditValues(secondary) : setSecondary(v)

Spec == Init /\ [][Next]_vars

-----------------------------------------------------------------------------
(* The three functions called directly, each on every input of its set. *)

ReturnMetrics ==
  /\ call.fn = "computeMetrics"
  /\ ~ret.done
  /\ ret' = Returned(computeMetrics(call.raw))
  /\ UNCHANGED <<workbench, call>>

InitMetrics ==
  /\ Unmounted
  /\ call \in {[fn |-> "computeMetrics", raw |-> t] : t \in MetricsInputs}
  /\ ret = Pending

SpecMetrics == InitMetrics /\ [][ReturnMetrics]_vars

ReturnComparison ==
  /\ call.fn = "computeComparison"
  /\ ~ret.done
  /\ ret' = Returned(computeComparison(call.primary, call.secondary))
  /\ UNCHANGED <<workbench, call>>

InitComparison ==
  /\ Unmounted
  /\ call \in {[fn |-> "computeComparison", primary |-> pair[1], secondary |-> pair[2]] :
                 pair \in PairInputs}
  /\ ret = Pending

SpecComparison == InitComparison /\ [][ReturnComparison]_vars

ReturnFormat ==
  /\ call.fn = "formatMinutes"
  /\ ~ret.done
  /\ ret' = Returned(formatMinutes(call.minutes))
  /\ UNCHANGED <<workbench, call>>

InitFormat ==
  /\ Unmounted
  /\ call \in {[fn |-> "formatMinutes", minutes |-> m] : m \in MinutesInputs}
  /\ ret = Pending

SpecFormat == InitFormat /\ [][ReturnFormat]_vars

-----------------------------------------------------------------------------
(* What the claims speak of, defined on the text itself and not by the code's *)
(* passes: the words of a text are its maximal runs of characters that are    *)
(* not whitespace.                                                            *)

Min(S) == CHOOSE x \in S : \A y \in S : x <= y

Max(S) == CHOOSE x \in S : \A y \in S : y <= x

Inked(t) == {i \in 1..Len(t) : t[i] \notin Whitespace}

AllWhitespace(t) == Inked(t) = {}

TrimmedLength(t) == IF AllWhitespace(t) THEN 0 ELSE Max(Inked(t)) - Min(Inked(t)) + 1

WordStarts(t) == {i \in Inked(t) : i = 1 \/ t[i - 1] \in Whitespace}

WordAt(t, i) ==
  SubSeq(t, i, Min({j \in i..Len(t) : j = Len(t) \/ t[j + 1] \in Whitespace}))

RawWordCount(t) == Cardinality(WordStarts(t))

\* the normalized form of a word: only its word characters, in lower case
Normalized(w) == toLowerCase(SelectSeq(w, LAMBDA c : c \in WordChars))

\* the distinct non-empty normalized tokens of a text
NormalizedTokens(t) == {Normalized(WordAt(t, i)) : i \in WordStarts(t)} \ {<<>>}

Occurrences(t, k) == Cardinality({i \in WordStarts(t) : Normalized(WordAt(t, i)) = k})

FirstSeen(t, k) == Min({i \in WordStarts(t) : Normalized(WordAt(t, i)) = k})

RepeatedKeys(t) == {k \in NormalizedTokens(t) : Occurrences(t, k) > 1}

\* the repeated keys by descending count, equal counts in order of first occurrence
Ranking(t) ==
  LET R == RepeatedKeys(t)
      before(a, b) ==
        \/ Occurrences(t, a) > Occurrences(t, b)
        \/ Occurrences(t, a) = Occurrences(t, b) /\ FirstSeen(t, a) < FirstSeen(t, b)
      pos(k) == 1 + Cardinality({a \in R : before(a, k)})
  IN  [p \in 1..Cardinality(R) |-> CHOOSE k \in R : pos(k) = p]

FirstFive(seq) == SubSeq(seq, 1, IF Len(seq) < 5 THEN Len(seq) ELSE 5)

\* the non-empty segments of the trimmed text between runs of . ! ?
SentenceSegments(t) ==
  IF AllWhitespace(t) THEN 0
  ELSE Cardinality({i \in Min(Inked(t))..Max(Inked(t)) :
                      /\ t[i] \notin SentenceEnd
                      /\ i = Min(Inked(t)) \/ t[i - 1] \in SentenceEnd})

\* a blank line: a run of whitespace inside the text that holds two newlines
BlankLineRuns(t) ==
  {i \in Min(Inked(t))..Max(Inked(t)) :
     /\ t[i] \in Whitespace
     /\ t[i - 1] \notin Whitespace
     /\ Cardinality({j \in i..(Min({k \in Inked(t) : k > i}) - 1) : t[j] = "\n"}) >= 2}

\* the segments of the trimmed text between blank lines
ParagraphSegments(t) ==
  IF AllWhitespace(t) THEN 0 ELSE 1 + Cardinality(BlankLineRuns(t))

IsZero(q) == q.num = 0 /\ q.den # 0

SameQuotient(a, b) == a.den # 0 /\ b.den # 0 /\ a.num * b.den = b.num * a.den

-----------------------------------------------------------------------------
(* computeMetrics, under SpecMetrics *)

\* C3: repeatedWords is the first five of the keys that occur more than once,
\* by descending count, keys of equal count in the order they were first
\* encountered in the text; all of them when there are at most five.
C3_RepeatedWordsRanking ==
  ret.done => ret.value.repeatedWords = FirstFive(Ranking(call.raw))

\* C4: repeatedWords has at most 5 entries, each a non-empty normalized key
\* that occurs more than once in the text.
C4_RepeatedWordsBounded ==
  ret.done =>
    /\ Len(ret.value.repeatedWords) <= 5
    /\ \A i \in 1..Len(ret.value.repeatedWords) :
         /\ ret.value.repeatedWords[i] # <<>>
         /\ ret.value.repeatedWords[i] \in NormalizedTokens(call.raw)
         /\ Occurrences(call.raw, ret.value.repeatedWords[i]) > 1

\* a text with more than five repeated words: five are returned
C4_Witness ==
  /\ ret.done
  /\ call.fn = "computeMetrics"
  /\ Cardinality(RepeatedKeys(call.raw)) > 5
  /\ Len(ret.value.repeatedWords) = 5

\* the counts that hold of every text: characters, words, sentences, paragraphs
CountsAsDescribed ==
  ret.done =>
    /\ ret.value.characters = TrimmedLength(call.raw)
    /\ ret.value.words = RawWordCount(call.raw)
    /\ ret.value.sentences = SentenceSegments(call.raw)
    /\ ret.value.paragraphs = ParagraphSegments(call.raw)

\* C5 as written: computeMetrics("Hello world. Hello again!") has characters
\* 26, words 4, sentences 2, paragraphs 1 and repeatedWords ["hello"].
C5_HelloScenarioAsWritten ==
  /\ CountsAsDescribed
  /\ (ret.done /\ call.raw = HelloText) =>
       /\ ret.value.characters = 26
       /\ ret.value.words = 4
       /\ ret.value.sentences = 2
       /\ ret.value.paragraphs = 1
       /\ ret.value.repeatedWords = <<<<"h", "e", "l", "l", "o">>>>

\* C5 amended: computeMetrics("Hello world. Hello again!") has characters 25
\* (the text is 25 characters long), words 4, sentences 2, paragraphs 1 and
\* repeatedWords ["hello"]; characters is the length of the trimmed input,
\* words the number of whitespace-delimited tokens, sentences the number of
\* non-empty segments between runs of . ! ?, paragraphs the number of
\* non-empty segments between blank lines.
C5_HelloScenario ==
  /\ CountsAsDescribed
  /\ (ret.done /\ call.raw = HelloText) =>
       /\ ret.value.characters = 25
       /\ ret.value.words = 4
       /\ ret.value.sentences = 2
       /\ ret.value.paragraphs = 1
       /\ ret.value.repeatedWords = <<<<"h", "e", "l", "l", "o">>>>

C5_Witness ==
  /\ ret.done
  /\ call.fn = "computeMetrics"
  /\ call.raw = HelloText
  /\ ret.value.characters = Len(HelloText)
  /\ ret.value.sentences = 2

\* C6: on a text that is empty or only whitespace computeMetrics returns 0
\* for characters, words, sentences, paragraphs, averageWordLength and
\* readingTimeMinutes, and an empty repeatedWords.
C6_EmptyTextAllZero ==
  (ret.done /\ AllWhitespace(call.raw)) =>
    /\ ret.value.characters = 0
    /\ ret.value.words = 0
    /\ ret.value.sentences = 0
    /\ ret.value.paragraphs = 0
    /\ IsZero(ret.value.averageWordLength)
    /\ IsZero(ret.value.readingTimeMinutes)
    /\ ret.value.repeatedWords = <<>>

\* a text of whitespace only, not empty, has been measured
C6_Witness ==
  /\ ret.done
  /\ call.fn = "computeMetrics"
  /\ call.raw = WhitespaceText
  /\ ret.value.words = 0

-----------------------------------------------------------------------------
(* computeComparison, under SpecComparison *)

\* the denominator of the similarity: the two raw word counts, 1 when both are 0
FlooredWordSum(p, s) ==
  IF RawWordCount(p) + RawWordCount(s) = 0 THEN 1
  ELSE RawWordCount(p) + RawWordCount(s)

SharedTokens(p, s) == NormalizedTokens(p) \cap NormalizedTokens(s)

\* C1: for a non-empty text x, computeComparison(x, x) has wordDelta 0,
\* characterDelta 0 and similarity 1.  Stated for the texts that hold at least
\* one normalized token, the narrowest reading of "non-empty".
C1_IdenticalTextsFullyOverlap ==
  (ret.done /\ call.primary = call.secondary /\ NormalizedTokens(call.primary) # {}) =>
    /\ ret.value.wordDelta = 0
    /\ ret.value.characterDelta = 0
    /\ ret.value.similarity.den # 0
    /\ ret.value.similarity.num = ret.value.similarity.den

C7_ComparisonSymmetric ==
  ret.done =>
    LET swapped == computeComparison(call.secondary, call.primary)
    IN  /\ SameQuotient(swapped.similarity, ret.value.similarity)
        /\ swapped.wordDelta = 0 - ret.value.wordDelta
        /\ swapped.characterDelta = 0 - ret.value.characterDelta

\* two different texts that share a token and differ in both counts
C7_Witness ==
  /\ ret.done
  /\ call.fn = "computeComparison"
  /\ ret.value.wordDelta > 0
  /\ ret.value.characterDelta > 0
  /\ ret.value.similarity.num > 0

\* C10: the similarity lies between 0 and 1: twice the shared tokens is at
\* most the sum of the word counts, the comparison's tokenization yielding for
\* each text no more non-empty tokens than the word count computeMetrics gives.
C10_SimilarityInUnitInterval ==
  ret.done =>
    /\ ret.value.similarity.den > 0
    /\ 0 <= ret.value.similarity.num
    /\ ret.value.similarity.num <= ret.value.similarity.den
    /\ Len(tokens(call.primary)) <= computeMetrics(call.primary).words
    /\ Len(tokens(call.secondary)) <= computeMetrics(call.secondary).words

\* a pair whose similarity is exactly 1
C10_Witness ==
  /\ ret.done
  /\ call.fn = "computeComparison"
  /\ ret.value.similarity.num = ret.value.similarity.den
  /\ ret.value.similarity.num > 0
  /\ Len(tokens(call.primary)) = computeMetrics(call.primary).words

-----------------------------------------------------------------------------
(* formatMinutes, under SpecFormat *)

\* the integer nearest to 60 * w / 200 = 3w / 10, a half going up
NearestSeconds(w) == (3 * w + 5) \div 10

\* d.d for a number of tenths
OneDecimal(n) == ToString(n \div 10) \o "." \o ToString(n % 10)

\* C8: formatMinutes gives "under 1 min" for 0; below 1 the whole seconds
\* (minutes x 60 rounded, at least 1) and " sec"; otherwise the minutes with
\* one decimal and " min"; 0.5 gives "30 sec", 2.25 gives "2.3 min"; the
\* reading time w/200 shows "under 1 min" exactly when w = 0 and seconds
\* exactly when 1 <= w <= 199.
C8_FormatMinutes ==
  ret.done =>
    LET m == call.minutes
        w == call.minutes.num
        secs == {ToString(k) \o " sec" : k \in 1..60}
        mins == {OneDecimal(n) \o " min" :
                   n \in {k \in 10..(MaxWords \div 20 + 11) :
                            20 * k - w <= 10 /\ w - 20 * k <= 10}}
    IN  /\ m.num = 0 => ret.value = "under 1 min"
        /\ m = [num |-> 1, den |-> 2] => ret.value = "30 sec"
        /\ m = [num |-> 9, den |-> 4] => ret.value = "2.3 min"
        /\ m.den = WordsPerMinute =>
             /\ (ret.value = "under 1 min") <=> (w = 0)
             /\ (ret.value \in secs) <=> (w \in 1..199)
             /\ w \in 1..199 =>
                  ret.value = ToString(Max({1, NearestSeconds(w)})) \o " sec"
             /\ w >= 200 => ret.value \in mins

\* five words, 1.5 seconds, are shown as 2 sec
C8_Witness ==
  /\ ret.done
  /\ call.fn = "formatMinutes"
  /\ call.minutes = [num |-> 5, den |-> WordsPerMinute]
  /\ ret.value = "2 sec"

-----------------------------------------------------------------------------
(* The component, under Spec *)

Fresh ==
  /\ primaryMetrics = computeMetrics(primary)
  /\ secondaryMetrics = computeMetrics(secondary)
  /\ comparison = computeComparison(primary, secondary)

OtherSampleUntouched ==
  /\ primary' # primary => (secondary' = secondary /\ secondaryMetrics' = secondaryMetrics)
  /\ secondary' # secondary => (primary' = primary /\ primaryMetrics' = primaryMetrics)

\* C9: after any sequence of edits of the two buffers the rendered primary
\* metrics, secondary metrics and comparison are those of the current texts,
\* and an edit of one buffer leaves the other buffer and the other sample's
\* metrics unchanged.
C9_RenderNeverStale == []Fresh /\ [][OtherSampleUntouched]_vars

\* both buffers have been edited, the secondary last
C9_Witness ==
  /\ primary = <<"a", ".">>
  /\ secondary = CatDogText
  /\ deps.comparison = <<primary, secondary>>
  /\ comparison.wordDelta = 1

=============================================================================
